---- MODULE Spec2Model ----
(***************************************************************************)
(* A model of the survey web application in src/app.py: the figures        *)
(* directory, the responses table, the Flask session (a signed cookie held  *)
(* by the browser and sent back with each request), the request handlers    *)
(* home, start, survey, complete and stats, and the last HTTP response.     *)
(*                                                                         *)
(* Conventions.                                                            *)
(*  - Python's None / a missing dictionary key is the empty sequence Null, *)
(*    a present value v is the one-element sequence Some(v).               *)
(*  - A character string that the code slices (the participant id) is a    *)
(*    sequence of 8-character blocks, so uid[:8] is its first block.       *)
(*  - A timestamp is a number of clock ticks; TicksPerSec ticks make one   *)
(*    second, which is the resolution of the timestamp /stats displays.    *)
(***************************************************************************)
EXTENDS Integers, Sequences, FiniteSets, TLC

VARIABLES
    figdir,   \* names of the entries of the directory FIG_DIR
    db,       \* the table responses, in insertion (id) order
    jar,      \* jar[c]: the session cookie browser c holds
    nextId,   \* number of participant ids os.urandom has produced so far
    resp      \* the HTTP response of the request this step served, if any

vars == <<figdir, db, jar, nextId, resp>>

\* ---------------------------------------------------------------- bounds
MaxResponses == 2     \* rows the responses table may hold while surveys run
MaxStarts    == 2     \* POST /start requests served
MaxStatRows  == 3     \* rows of the stores /stats is applied to
TicksPerSec  == 2     \* clock ticks per displayed second
MaxFigures   == 10    \* figures of the surveys whose progress is shown

Clients == {"c1"}

\* ------------------------------------------------------- None and strings
Null == <<>>
Some(v) == <<v>>

\* Truthy with "is not None" in its place: 0 counts too.
TruthyNotNone(o) == o # Null

\* Python truthiness of an optional integer (None and 0 are falsy).
Truthy(o) == o # Null /\ o[1] # 0

\* ------------------------------------------------------------ the catalog
Fig1 == "Devin-Figure1-NoAids.png"
Fig2 == "Devin-Figure2.png"
FigX == "Extra.PNG"
Notes == "notes.txt"

\* Everything the figures directory may contain, in the order Python's
\* sorted() gives these names (code-point order).
DirUniverse == <<Fig1, Fig2, FigX, Notes>>

\* The files that come and go in the figures directory while surveys run.
Files == {Fig1, FigX}

\* p.suffix.lower() of each entry.
SuffixLower(name) == IF name = Notes THEN ".txt" ELSE ".png"

QUESTIONS ==
    [f \in {Fig1, Fig2} |->
        IF f = Fig1
        THEN [prompt  |-> "Does Kit Kat have approximately more or less than 35% sugar?",
              choices |-> <<"More", "Less", "About 35%">>,
              correct |-> Some("Less")]
        ELSE [prompt  |-> "Approximate the difference in sugar percentage between Milky Way and Twix.",
              choices |-> <<"~3%", "~8%", "~15%", "~20%">>,
              correct |-> Some("~8%")]]

DEFAULT_QUESTION ==
    [prompt  |-> "Based on the figure, which option best answers the question?",
     choices |-> <<"A", "B", "C", "D">>,
     correct |-> Null]

\* QuestionFor falling back to the first question of the catalog.
QuestionForFirst(fig) == IF fig \in DOMAIN QUESTIONS THEN QUESTIONS[fig] ELSE QUESTIONS[Fig1]

\* QUESTIONS.get(fig_name, DEFAULT_QUESTION)
QuestionFor(fig) == IF fig \in DOMAIN QUESTIONS THEN QUESTIONS[fig] ELSE DEFAULT_QUESTION

\* The form of a POST /survey: the field choice, or no such field.
Forms == {Null, Some("Less"), Some("~8%")}

\* FormChoice with the placeholder of /stats as the default.
FormChoiceDash(form) == IF form = Null THEN "--" ELSE form[1]

\* request.form.get("choice", "")
FormChoice(form) == IF form = Null THEN "" ELSE form[1]

\* ---------------------------------------------------------- figure store
RECURSIVE SelectInOrder(_, _)
SelectInOrder(order, S) ==
    IF order = <<>> THEN <<>>
    ELSE (IF Head(order) \in S THEN <<Head(order)>> ELSE <<>>)
         \o SelectInOrder(Tail(order), S)

\* list_figures(): the .png entries of the directory, sorted.
list_figures(dir) ==
    SelectInOrder(DirUniverse, {n \in dir : SuffixLower(n) = ".png"})

Range(s) == {s[i] : i \in DOMAIN s}

\* Shuffles with random.choices in its place: a name may be drawn twice.
ShufflesWithRepeats(figs) == [1..Len(figs) -> Range(figs)]

\* Every outcome of random.shuffle(figs).
Shuffles(figs) ==
    {p \in [1..Len(figs) -> Range(figs)] : Range(p) = Range(figs)}

\* ---------------------------------------------------------------- session
EmptySession == [user_id |-> Null, idx |-> Null, figs |-> Null]

\* session.get(key, default)
SessionGet(s, key, default) == IF s[key] = Null THEN default ELSE s[key][1]

\* The 8-character blocks os.urandom(8).hex() is made of.
Hex8 == <<"1f3a9c07", "5be2d410", "a49c77e3", "c0d1e2f3", "e8b6a5d4">>

\* The n-th participant id os.urandom(8).hex() produces: 16 hexadecimal
\* characters, distinct from the earlier ones (the first two share their
\* first 8 characters).
Token(n) == <<Hex8[(n + 1) \div 2], Hex8[n + 1]>>

Unknown == <<"unknown">>

\* FigOrder falling back to a default figure when there is none to show.
FigOrderOrDefault(s, dir) ==
    IF s.figs = Null \/ s.figs[1] = <<>>
    THEN (IF list_figures(dir) = <<>> THEN <<Fig1>> ELSE list_figures(dir))
    ELSE s.figs[1]

\* session.get("figs") or list_figures()
FigOrder(s, dir) ==
    IF s.figs = Null \/ s.figs[1] = <<>> THEN list_figures(dir) ELSE s.figs[1]

\* session.get("idx", 0)
IdxOf(s) == SessionGet(s, "idx", 0)

\* ---------------------------------------------------------- response store
MaxTs(rows) ==
    IF rows = <<>> THEN 0
    ELSE CHOOSE t \in {rows[i].ts : i \in DOMAIN rows} :
            \A i \in DOMAIN rows : rows[i].ts <= t

\* datetime.now(timezone.utc) at an insert. Requests are served one at a
\* time, so every insert reads a later tick than the inserts before it.
Now(rows) == MaxTs(rows) + 1

\* insert_response with INSERT OR REPLACE keyed by participant and figure.
insert_or_replace(rows, ts, user_id, figure, question, choice, correct_choice, is_correct) ==
    LET row  == [ts |-> ts, user_id |-> user_id, figure |-> figure,
                 question |-> question, choice |-> choice,
                 correct_choice |-> correct_choice, is_correct |-> is_correct]
        same == {i \in DOMAIN rows : rows[i].user_id = user_id /\ rows[i].figure = figure}
    IN  IF same = {} THEN Append(rows, row)
        ELSE [i \in DOMAIN rows |-> IF i \in same THEN row ELSE rows[i]]

\* insert_response: one INSERT INTO responses.
insert_response(rows, ts, user_id, figure, question, choice, correct_choice, is_correct) ==
    Append(rows, [ts |-> ts, user_id |-> user_id, figure |-> figure,
                  question |-> question, choice |-> choice,
                  correct_choice |-> correct_choice, is_correct |-> is_correct])

\* ---------------------------------------------------------------- responses
Redirect(route, method, target) ==
    [route |-> route, method |-> method, kind |-> "redirect", to |-> target, ctx |-> <<>>]

Render(route, method, template, ctx) ==
    [route |-> route, method |-> method, kind |-> "render", to |-> template, ctx |-> ctx]

NoResponse == [route |-> "", method |-> "", kind |-> "", to |-> "", ctx |-> <<>>]

\* -------------------------------------------------------------------- Init
Init ==
    /\ figdir \in SUBSET Files
    /\ db = <<>>
    /\ jar = [c \in Clients |-> EmptySession]
    /\ nextId = 0
    /\ resp = NoResponse

\* ------------------------------------------------------------ GET /
\* home with session.clear() before the page is rendered.
homeClears ==
    /\ resp' = Render("/", "GET", "home.html", [n |-> Len(list_figures(figdir))])
    /\ jar' = [c \in Clients |-> EmptySession]
    /\ UNCHANGED <<figdir, db, nextId>>

home ==
    /\ resp' = Render("/", "GET", "home.html", [n |-> Len(list_figures(figdir))])
    /\ UNCHANGED <<figdir, db, jar, nextId>>

\* ------------------------------------------------------------ POST /start
StartSession(s, uid, figs) ==
    [s EXCEPT !.user_id = Some(uid), !.idx = Some(0), !.figs = Some(figs)]

start(c) ==
    /\ nextId < MaxStarts
    /\ \E figs \in Shuffles(list_figures(figdir)) :
          jar' = [jar EXCEPT ![c] = StartSession(jar[c], Token(nextId + 1), figs)]
    /\ nextId' = nextId + 1
    /\ resp' = Redirect("/start", "POST", "survey")
    /\ UNCHANGED <<figdir, db>>

\* ------------------------------------------------------------ /survey
\* IsCorrect without the test for None: int(choice == correct).
IsCorrectNoNone(choice, correct) ==
    Some(IF correct # Null /\ choice = correct[1] THEN 1 ELSE 0)

\* None if correct is None else int(choice == correct)
IsCorrect(choice, correct) ==
    IF correct = Null THEN Null ELSE Some(IF choice = correct[1] THEN 1 ELSE 0)

\* Pct counting the question on display as done: int((idx + 1) / len(figs) * 100).
PctOfNext(idx, n) == ((idx + 1) * 100) \div n

\* int(idx / len(figs) * 100); for the list lengths of this model the
\* floating-point quotient truncates to the exact floor.
Pct(idx, n) == (idx * 100) \div n

\* Advance that stores the index it read: session["idx"] = idx.
AdvanceNot(s, idx) == [s EXCEPT !.idx = Some(idx)]

\* session["idx"] = idx + 1
Advance(s, idx) == [s EXCEPT !.idx = Some(idx + 1)]

\* SurveyRows guarded against a second answer of a participant to a figure.
SurveyRowsOnce(rows, ts, s, fig_name, form) ==
    LET q       == QuestionFor(fig_name)
        choice  == FormChoice(form)
        correct == q.correct
        uid     == SessionGet(s, "user_id", Unknown)
    IN  IF \E i \in DOMAIN rows : rows[i].user_id = uid /\ rows[i].figure = fig_name
        THEN rows
        ELSE insert_response(rows, ts, uid, fig_name, q.prompt, choice, correct,
                             IsCorrect(choice, correct))

\* The row a POST /survey carrying session s and the form inserts at time ts.
SurveyRows(rows, ts, s, fig_name, form) ==
    LET q       == QuestionFor(fig_name)
        choice  == FormChoice(form)
        correct == q.correct
    IN  insert_response(rows, ts, SessionGet(s, "user_id", Unknown), fig_name,
                        q.prompt, choice, correct, IsCorrect(choice, correct))

\* The handler survey() serving browser c a request that carries the session
\* cookie s. An accepted POST changes the session, so its response sets the
\* browser's cookie; the other responses leave the cookie alone.
survey(c, s, method, form) ==
    LET figs == FigOrder(s, figdir)
        idx  == IdxOf(s)
    IN  IF idx >= Len(figs)
        THEN /\ resp' = Redirect("/survey", method, "complete")
             /\ UNCHANGED <<figdir, db, jar, nextId>>
        ELSE LET fig_name == figs[idx + 1]
                 q        == QuestionFor(fig_name)
             IN  IF method = "POST"
                 THEN /\ Len(db) < MaxResponses
                      /\ db' = SurveyRows(db, Now(db), s, fig_name, form)
                      /\ jar' = [jar EXCEPT ![c] = Advance(s, idx)]
                      /\ resp' = Redirect("/survey", "POST", "survey")
                      /\ UNCHANGED <<figdir, nextId>>
                 ELSE /\ resp' = Render("/survey", "GET", "survey.html",
                                        [fig |-> fig_name, q |-> q, idx |-> idx,
                                         n |-> Len(figs), pct |-> Pct(idx, Len(figs))])
                      /\ UNCHANGED <<figdir, db, jar, nextId>>

\* GET /survey and POST /survey with the cookie the browser holds.
SurveyGet(c) == survey(c, jar[c], "GET", Null)
SurveyPost(c, form) == survey(c, jar[c], "POST", form)

\* The cookie of the POST /survey whose response set the cookie s: the index
\* only ever changes by session["idx"] = idx + 1, and only POST /start
\* stores a participant id, so a cookie without one was made from a session
\* that was empty before its first accepted POST.
PrevCookie(s) ==
    IF s.user_id = Null /\ s.figs = Null /\ IdxOf(s) = 1
    THEN EmptySession
    ELSE [s EXCEPT !.idx = Some(IdxOf(s) - 1)]

\* A double submission: the participant submitted the form twice, so a
\* second POST /survey arrives with the same cookie as the one whose
\* response the browser has already received.
Resubmit(c, form) ==
    /\ IdxOf(jar[c]) >= 1
    /\ survey(c, PrevCookie(jar[c]), "POST", form)

\* ------------------------------------------------------------ GET /complete
complete ==
    /\ resp' = Render("/complete", "GET", "complete.html", <<>>)
    /\ UNCHANGED <<figdir, db, jar, nextId>>

\* ------------------------------------------------------ the environment
\* A step of the environment serves no request: it leaves no response.
\* The browser loses its session cookie.
LoseSession(c) ==
    /\ jar[c] # EmptySession
    /\ jar' = [jar EXCEPT ![c] = EmptySession]
    /\ resp' = NoResponse
    /\ UNCHANGED <<figdir, db, nextId>>

\* A file is added to or removed from the figures directory.
AddFile(f) ==
    /\ f \notin figdir
    /\ figdir' = figdir \cup {f}
    /\ resp' = NoResponse
    /\ UNCHANGED <<db, jar, nextId>>

RemoveFile(f) ==
    /\ f \in figdir
    /\ figdir' = figdir \ {f}
    /\ resp' = NoResponse
    /\ UNCHANGED <<db, jar, nextId>>

\* ------------------------------------------------------------ GET /stats
\* The orders in which ORDER BY ts DESC may deliver the rows numbered S:
\* rows with equal ts come in an order SQL leaves open.
RECURSIVE DescOrders(_, _)
DescOrders(rows, S) ==
    IF S = {} THEN {<<>>}
    ELSE UNION {{<<i>> \o o : o \in DescOrders(rows, S \ {i})} :
                   i \in {j \in S : \A k \in S : rows[j].ts >= rows[k].ts}}

\* fetch_responses(): SELECT ts, user_id, figure, choice, correct_choice,
\* is_correct FROM responses ORDER BY ts DESC.
fetch_responses(rows) ==
    LET col(r) == [ts |-> r.ts, user_id |-> r.user_id, figure |-> r.figure,
                   choice |-> r.choice, correct_choice |-> r.correct_choice,
                   is_correct |-> r.is_correct]
        sel(p) == [i \in 1..Len(rows) |-> col(rows[p[i]])]
    IN  {sel(p) : p \in DescOrders(rows, DOMAIN rows)}

\* The dictionaries of stats() before its first loop: keys in insertion order.
NoUsers == [order |-> <<>>, user_answers |-> <<>>, user_first_ts |-> <<>>, user_correct |-> <<>>]

\* d[key] = value on a dictionary held as a function.
DictSet(d, key, value) ==
    [k \in DOMAIN d \cup {key} |-> IF k = key THEN value ELSE d[k]]

\* ScanRow with user_answers[uid].setdefault(figure, choice): the first row
\* scanned for a figure keeps the cell.
ScanRowKeepFirst(acc, r) ==
    LET uid  == r.user_id
        seen == \E i \in DOMAIN acc.order : acc.order[i] = uid
        a1   == IF seen THEN acc
                ELSE [order         |-> Append(acc.order, uid),
                      user_answers  |-> DictSet(acc.user_answers, uid, <<>>),
                      user_first_ts |-> DictSet(acc.user_first_ts, uid, r.ts),
                      user_correct  |-> DictSet(acc.user_correct, uid, 0)]
        a2   == IF r.figure \in DOMAIN a1.user_answers[uid] THEN a1
                ELSE [a1 EXCEPT !.user_answers =
                         DictSet(a1.user_answers, uid,
                                 DictSet(a1.user_answers[uid], r.figure, r.choice))]
    IN  IF Truthy(r.is_correct)
        THEN [a2 EXCEPT !.user_correct =
                    DictSet(a2.user_correct, uid, a2.user_correct[uid] + 1)]
        ELSE a2

\* One pass of the loop "for r in raw" of stats().
ScanRow(acc, r) ==
    LET uid  == r.user_id
        seen == \E i \in DOMAIN acc.order : acc.order[i] = uid
        a1   == IF seen THEN acc
                ELSE [order         |-> Append(acc.order, uid),
                      user_answers  |-> DictSet(acc.user_answers, uid, <<>>),
                      user_first_ts |-> DictSet(acc.user_first_ts, uid, r.ts),
                      user_correct  |-> DictSet(acc.user_correct, uid, 0)]
        a2   == [a1 EXCEPT !.user_answers =
                    DictSet(a1.user_answers, uid,
                            DictSet(a1.user_answers[uid], r.figure, r.choice))]
    IN  IF Truthy(r.is_correct)
        THEN [a2 EXCEPT !.user_correct =
                    DictSet(a2.user_correct, uid, a2.user_correct[uid] + 1)]
        ELSE a2

RECURSIVE ScanRows(_, _, _)
ScanRows(acc, raw, i) ==
    IF i > Len(raw) THEN acc ELSE ScanRows(ScanRow(acc, raw[i]), raw, i + 1)

\* sorted(keys, key=...): a stable sort, ascending.
RECURSIVE SortedBy(_, _)
SortedBy(keys, key) ==
    IF keys = <<>> THEN <<>>
    ELSE LET n    == Len(keys)
             rest == SortedBy(SubSeq(keys, 1, n - 1), key)
             x    == keys[n]
             k    == Cardinality({i \in DOMAIN rest : key[rest[i]] <= key[x]})
         IN  SubSeq(rest, 1, k) \o <<x>> \o SubSeq(rest, k + 1, Len(rest))

\* ts[:19].replace("T", " "): the timestamp cut to whole seconds.
FormatTs(ts) == ts \div TicksPerSec

\* uid[:8]
ShortId(uid) == SubSeq(uid, 1, 1)

\* The placeholder of an unanswered figure (the character U+2014).
Dash == "--"

\* AnswerOf with user_answers[uid].get(fig, ""): no placeholder.
AnswerOfBlank(answers, fig) == IF fig \in DOMAIN answers THEN answers[fig] ELSE ""

\* user_answers[uid].get(fig, placeholder)
AnswerOf(answers, fig) == IF fig \in DOMAIN answers THEN answers[fig] ELSE Dash

\* The key the participant rows are sorted by.
PivotKey(acc) == acc.user_first_ts

Pivot(raw, figures) ==
    LET acc  == ScanRows(NoUsers, raw, 1)
        uids == SortedBy(acc.order, PivotKey(acc))
    IN  [k \in 1..Len(uids) |->
            [user_id |-> ShortId(uids[k]),
             ts      |-> FormatTs(acc.user_first_ts[uids[k]]),
             answers |-> [i \in 1..Len(figures) |->
                             AnswerOf(acc.user_answers[uids[k]], figures[i])],
             correct |-> acc.user_correct[uids[k]]]]

\* Accuracy with 0.0 for a figure without responses.
AccuracyOrZero(correct, total) ==
    Some(IF total = 0 THEN 0 ELSE (2000 * correct + total) \div (2 * total))

\* round(correct / total * 100, 1) if total else None, in tenths of a percent.
\* For the totals of this model no quotient falls half-way between two tenths.
Accuracy(correct, total) ==
    IF total = 0 THEN Null ELSE Some((2000 * correct + total) \div (2 * total))

FigStats(raw, figures) ==
    LET total(fig)   == Cardinality({i \in DOMAIN raw : raw[i].figure = fig})
        correct(fig) == Cardinality({i \in DOMAIN raw :
                                        raw[i].figure = fig /\ Truthy(raw[i].is_correct)})
    IN  [k \in 1..Len(figures) |->
            [figure   |-> figures[k],
             question |-> QuestionFor(figures[k]).prompt,
             correct  |-> correct(figures[k]),
             total    |-> total(figures[k]),
             accuracy |-> Accuracy(correct(figures[k]), total(figures[k]))]]

stats ==
    /\ \E raw \in fetch_responses(db) :
          LET figures == list_figures(figdir)
          IN  resp' = Render("/stats", "GET", "stats.html",
                             [figures   |-> figures,
                              pivot     |-> Pivot(raw, figures),
                              fig_stats |-> FigStats(raw, figures)])
    /\ UNCHANGED <<figdir, db, jar, nextId>>

\* -------------------------------------------------------------------- Next
\* The survey controller and its environment. The pages GET / and GET
\* /complete read nothing the controller writes and are left out here.
Next ==
    \/ \E c \in Clients : start(c)
    \/ \E c \in Clients : SurveyGet(c)
    \/ \E c \in Clients, form \in Forms : SurveyPost(c, form)
    \/ \E c \in Clients, form \in Forms : Resubmit(c, form)
    \/ \E c \in Clients : LoseSession(c)
    \/ \E f \in Files : AddFile(f)
    \/ \E f \in Files : RemoveFile(f)

Spec == Init /\ [][Next]_vars

\* ------------------------------------------------- /stats on every store
\* The participants and forms of the stores /stats is applied to.
StatSessions == {EmptySession, StartSession(EmptySession, Token(1), <<Fig1, FigX>>)}
StatForms == {Some("Less"), Some("More")}

\* The store fills, and then /stats is asked for: an accepted POST /survey of
\* some participant inserts a row. Several server processes insert side by
\* side, so a row may carry the timestamp of the row before it.
FillStore(s, fig, form) ==
    /\ resp = NoResponse
    /\ Len(db) < MaxStatRows
    /\ \E ts \in {MaxTs(db), MaxTs(db) + 1} : db' = SurveyRows(db, ts, s, fig, form)
    /\ UNCHANGED <<figdir, jar, nextId, resp>>

\* The directories /stats is asked for in.
StatDirs == {{}, {FigX}, {Fig1, Notes}, {Fig1, Fig2, FigX, Notes}}

InitStats ==
    /\ figdir \in StatDirs
    /\ db = <<>>
    /\ jar = [c \in Clients |-> EmptySession]
    /\ nextId = 0
    /\ resp = NoResponse

NextStats ==
    \/ \E s \in StatSessions, fig \in Files, form \in StatForms : FillStore(s, fig, form)
    \/ resp = NoResponse /\ stats

SpecStats == InitStats /\ [][NextStats]_vars

\* --------------------------------------- a survey driven sequentially
\* POST /start while the table has room for the answers to the figures of the
\* new survey: the storage does not fail under the participant.
RunStart(c) ==
    /\ Len(db) + Len(list_figures(figdir)) <= MaxResponses
    /\ start(c)

\* The participant sends every request with the cookie of the latest
\* response and keeps the cookie; the figures directory changes as before.
NextRun ==
    \/ \E c \in Clients : RunStart(c)
    \/ \E c \in Clients : SurveyGet(c)
    \/ \E c \in Clients, form \in Forms : SurveyPost(c, form)
    \/ \E f \in Files : AddFile(f)
    \/ \E f \in Files : RemoveFile(f)

\* The participant keeps submitting answers.
SpecRun ==
    /\ Init /\ [][NextRun]_vars
    /\ WF_vars(\E c \in Clients, form \in Forms : SurveyPost(c, form))

\* ------------------------------------------------- every route of the app
\* One browser asks for the pages of the application in any order, each
\* request with the cookie of the latest response, while the figures
\* directory changes.
NextRoutes ==
    \/ home
    \/ \E c \in Clients : start(c)
    \/ \E c \in Clients : SurveyGet(c)
    \/ \E c \in Clients, form \in Forms : SurveyPost(c, form)
    \/ complete
    \/ stats
    \/ \E f \in Files : AddFile(f)
    \/ \E f \in Files : RemoveFile(f)

SpecRoutes == Init /\ [][NextRoutes]_vars

\* ------------------------------------------- the progress of long surveys
\* The k-th of the figures of a long survey.
PngName(k) == "figure-" \o ToString(k) \o ".png"

\* The session POST /start stores for n figures, after i answers.
RunSession(n, i) ==
    LET started == StartSession(EmptySession, Token(1), [k \in 1..n |-> PngName(k)])
    IN  IF i = 0 THEN started ELSE Advance(started, i - 1)

\* The store after the first i answers of that session, one per tick.
RECURSIVE RunRows(_, _)
RunRows(n, i) ==
    IF i = 0 THEN <<>>
    ELSE SurveyRows(RunRows(n, i - 1), i, RunSession(n, i - 1), PngName(i), Null)

\* A survey of 1..MaxFigures figures has been started and some of its
\* questions have been answered, one after the other; then the participant
\* asks for GET /survey.
InitPct ==
    /\ figdir = {}
    /\ nextId = 1
    /\ resp = NoResponse
    /\ \E n \in 1..MaxFigures : \E i \in 0..n :
          /\ jar = [c \in Clients |-> RunSession(n, i)]
          /\ db = RunRows(n, i)

NextPct == \E c \in Clients : SurveyGet(c)

SpecPct == InitPct /\ [][NextPct]_vars

\* ===================================================================
\* Properties of the survey controller, checked under Spec.
\* ===================================================================
Last(rows) == rows[Len(rows)]

IsPrefix(a, b) == Len(a) <= Len(b) /\ SubSeq(b, 1, Len(a)) = a

\* The session s is COMPLETE: its index has reached the end of its figure order.
IsComplete(s, dir) == IdxOf(s) >= Len(FigOrder(s, dir))

\* The cookies a /survey request of browser c may carry: the one it holds and,
\* after an accepted POST, the one a duplicate of that POST carries.
Cookies(c) ==
    {jar[c]} \cup (IF IdxOf(jar[c]) >= 1 THEN {PrevCookie(jar[c])} ELSE {})

\* A /survey request of browser c is served in this step.
SurveyStep(c, s, method, form) ==
    /\ resp'.route = "/survey" /\ resp'.method = method
    /\ s = jar[c] \/ (method = "POST" /\ IdxOf(jar[c]) >= 1 /\ s = PrevCookie(jar[c]))
    /\ survey(c, s, method, form)

UserIds(rows) == {rows[i].user_id : i \in DOMAIN rows}

\* C1 -- Once the index of a session is >= the number of figures in the
\* figure order POST /start stored in it (COMPLETE), every GET /survey and
\* every POST /survey that carries the session redirects to the completion
\* view, inserts no record and leaves the session as it is.
C1_CompleteIsTerminal ==
    [][\A c \in Clients :
          (jar[c].figs # Null /\ IdxOf(jar[c]) >= Len(jar[c].figs[1])) =>
             \A method \in {"GET", "POST"}, form \in Forms :
                SurveyStep(c, jar[c], method, form) =>
                   /\ resp' = Redirect("/survey", method, "complete")
                   /\ db' = db
                   /\ jar' = jar]_vars

\* C2 -- Every POST /survey accepted while index < total stores the current
\* figure, the submitted choice and the catalog's correct label (or null);
\* is_correct is 1 exactly when the choice equals the correct label, 0 for any
\* other choice, and null when the question has no correct answer.
C2_IsCorrectStored ==
    [][(resp'.route = "/survey" /\ resp'.method = "POST") =>
       \A c \in Clients, form \in Forms : \A s \in Cookies(c) :
          (SurveyStep(c, s, "POST", form) /\ ~IsComplete(s, figdir)) =>
             LET fig == FigOrder(s, figdir)[IdxOf(s) + 1]
                 q   == QuestionFor(fig)
                 r   == Last(db')
             IN  /\ Len(db') = Len(db) + 1
                 /\ r.figure = fig
                 /\ r.choice = FormChoice(form)
                 /\ r.correct_choice = q.correct
                 /\ q.correct # Null =>
                       r.is_correct = Some(IF form = q.correct THEN 1 ELSE 0)
                 /\ q.correct = Null => r.is_correct = Null]_vars

\* C2 witness: the store holds a correct answer to a question with a correct
\* label and an answer to a question without one.
C2_Witness ==
    /\ \E i \in DOMAIN db : db[i].is_correct = Some(1) /\ db[i].correct_choice = Some(db[i].choice)
    /\ \E i \in DOMAIN db : db[i].is_correct = Null /\ db[i].correct_choice = Null /\ db[i].choice # ""

\* C4 -- The figure of every record is an entry of list_figures() at the time
\* the record is inserted.
C4_FigureInStore ==
    [][Len(db') > Len(db) => Last(db').figure \in Range(list_figures(figdir))]_vars

\* C5 -- The response store is append-only: a step leaves the rows it holds
\* as they are, an accepted POST /survey (index < total) adds exactly one row
\* after them, and no other step changes the store.
C5_AppendOnly ==
    [][/\ db' # db => IsPrefix(db, db')
       /\ (resp'.route = "/survey" /\ resp'.method = "POST") =>
             \A c \in Clients, form \in Forms : \A s \in Cookies(c) :
                (SurveyStep(c, s, "POST", form) /\ ~IsComplete(s, figdir)) =>
                   Len(db') = Len(db) + 1
       /\ db' # db =>
             \E c \in Clients, form \in Forms : \E s \in Cookies(c) :
                /\ SurveyStep(c, s, "POST", form)
                /\ ~IsComplete(s, figdir)
                /\ Len(db') = Len(db) + 1]_vars

\* C5 witness: two accepted submissions of one participant for one figure,
\* both kept.
C5_Witness ==
    /\ Len(db) = 2
    /\ db[1].user_id = db[2].user_id
    /\ db[1].figure = db[2].figure
    /\ db[1].choice # db[2].choice

\* C6 as claimed -- A second submission of a started participant for index i
\* creates a duplicate record (same participant, same figure) and leaves the
\* session index at i + 2.
C6_IndexPlusTwo ==
    [][\A c \in Clients, form \in Forms :
          (jar[c].user_id # Null /\ db' # db /\ Resubmit(c, form)) =>
             /\ \E k \in DOMAIN db :
                   /\ db[k].user_id = Last(db').user_id
                   /\ db[k].figure = Last(db').figure
             /\ IdxOf(jar'[c]) = IdxOf(PrevCookie(jar[c])) + 2]_vars

\* C6 as amended -- A second POST /survey carrying the same session (index i
\* < total) is accepted like the first: it inserts one more record for the
\* same participant and the figure at position i of the session's figure
\* order, a duplicate of the first record when that order is the one POST
\* /start stored, and it sets the session index to i + 1 again.
C6_DuplicateSameIndex ==
    [][\A c \in Clients, form \in Forms :
          LET s == PrevCookie(jar[c])
              i == IdxOf(s)
              r == Last(db')
          IN  (IdxOf(jar[c]) >= 1 /\ SurveyStep(c, s, "POST", form)
                  /\ ~IsComplete(s, figdir)) =>
                 /\ Len(db') = Len(db) + 1
                 /\ r.user_id = SessionGet(s, "user_id", Unknown)
                 /\ r.figure = FigOrder(s, figdir)[i + 1]
                 /\ IdxOf(jar'[c]) = i + 1
                 /\ (s.figs # Null /\ s.figs[1] # <<>>) =>
                       \E k \in DOMAIN db :
                          db[k].user_id = r.user_id /\ db[k].figure = r.figure]_vars

\* C6 witness: the store holds two records of one started participant for the
\* first figure of the order, and the index is 1.
C6_Witness ==
    \E c \in Clients :
       /\ jar[c].figs # Null /\ jar[c].user_id # Null
       /\ IdxOf(jar[c]) = 1
       /\ Len(db) = 2
       /\ \A k \in DOMAIN db :
             /\ db[k].user_id = jar[c].user_id[1]
             /\ db[k].figure = jar[c].figs[1][1]
       /\ resp = Redirect("/survey", "POST", "survey")

\* C7 -- A POST /survey that carries no session state records the first
\* figure of list_figures() under a newly generated participant id, distinct
\* from the id of every other participant.
C7_FreshIdAfterLoss ==
    [][\A c \in Clients, form \in Forms :
          (jar[c] = EmptySession /\ db' # db /\ SurveyPost(c, form)) =>
             /\ Last(db').figure = list_figures(figdir)[1]
             /\ Last(db').user_id # Unknown
             /\ Last(db').user_id \notin UserIds(db)]_vars

\* C8 -- POST /start, from any state, sets the index to 0, assigns a
\* participant id no session and no record carries yet, stores a permutation
\* of list_figures() (the same names, each exactly once) and inserts nothing.
C8_StartResets ==
    [][\A c \in Clients :
          (resp'.route = "/start" /\ start(c)) =>
             LET s    == jar'[c]
                 figs == list_figures(figdir)
             IN  /\ s.idx = Some(0)
                 /\ s.user_id # Null
                 /\ s.user_id[1] # Unknown
                 /\ s.user_id[1] \notin UserIds(db)
                 /\ \A d \in Clients : s.user_id # jar[d].user_id
                 /\ s.figs # Null
                 /\ Len(s.figs[1]) = Len(figs)
                 /\ Range(s.figs[1]) = Range(figs)
                 /\ \A i, j \in DOMAIN s.figs[1] : i # j => s.figs[1][i] # s.figs[1][j]
                 /\ db' = db]_vars

\* C8 witness: a second POST /start, served to a session that had advanced,
\* has stored a reordered list of two figures and a fresh id beside the rows
\* of the first participant.
C8_Witness ==
    \E c \in Clients :
       /\ resp = Redirect("/start", "POST", "survey")
       /\ nextId = 2
       /\ jar[c].idx = Some(0)
       /\ jar[c].figs = Some(<<FigX, Fig1>>)
       /\ jar[c].user_id = Some(Token(2))
       /\ Len(db) >= 1
       /\ Token(1) \in UserIds(db)

\* C18 -- Every request leaves the index of a session within 0..length of
\* the figure order the session stores; a request changes the index only by
\* +1 (an accepted POST /survey) or to 0 (POST /start), and it changes the
\* stored figure order and the participant id only if it is POST /start.
C18_IndexWithinOrder ==
    [][(resp' # NoResponse) =>
       \A c \in Clients :
          LET s == jar[c]
              t == jar'[c]
          IN  /\ t.figs # Null => (0 <= IdxOf(t) /\ IdxOf(t) <= Len(t.figs[1]))
              /\ IdxOf(t) # IdxOf(s) =>
                    \/ /\ resp' = Redirect("/survey", "POST", "survey")
                       /\ IdxOf(t) = IdxOf(s) + 1
                    \/ /\ resp'.route = "/start"
                       /\ IdxOf(t) = 0
              /\ (t.figs # s.figs \/ t.user_id # s.user_id) =>
                    resp'.route = "/start"]_vars

\* C13 -- If the figure list survey() works on is empty (the session stores no
\* figure, and the directory lists none or is missing), every GET /survey and
\* every POST /survey redirects to the completion view: it renders no
\* progress percentage, inserts no record and leaves the session as it is.
C13_EmptyListCompletes ==
    [][(resp'.route = "/survey") =>
       \A c \in Clients, method \in {"GET", "POST"}, form \in Forms :
          \A s \in Cookies(c) :
             (/\ s.figs = Null \/ s.figs[1] = <<>>
              /\ list_figures(figdir) = <<>>
              /\ SurveyStep(c, s, method, form)) =>
                /\ resp' = Redirect("/survey", method, "complete")
                /\ db' = db
                /\ jar' = jar]_vars

\* C13 witness: a POST /survey of a session started in an empty directory has
\* been redirected to the completion view, the directory still being empty.
C13_Witness ==
    \E c \in Clients :
       /\ jar[c].figs = Some(<<>>)
       /\ IdxOf(jar[c]) = 0
       /\ list_figures(figdir) = <<>>
       /\ resp = Redirect("/survey", "POST", "complete")

\* C14 -- A POST /survey without the field choice, served while index <
\* total, is accepted: it inserts one record whose choice is the empty string
\* and whose is_correct is 0 when the question has a correct answer and null
\* otherwise, and the index advances by one.
C14_MissingChoice ==
    [][(resp'.route = "/survey" /\ resp'.method = "POST") =>
       \A c \in Clients : \A s \in Cookies(c) :
          (SurveyStep(c, s, "POST", Null) /\ ~IsComplete(s, figdir)) =>
             LET r == Last(db')
             IN  /\ resp' = Redirect("/survey", "POST", "survey")
                 /\ Len(db') = Len(db) + 1
                 /\ r.choice = ""
                 /\ r.correct_choice # Null => r.is_correct = Some(0)
                 /\ r.correct_choice = Null => r.is_correct = Null
                 /\ IdxOf(jar'[c]) = IdxOf(s) + 1]_vars

\* C14 witness: two submissions without a choice have been recorded, one for
\* a question with a correct answer and one for a question without, and the
\* index is 2.
C14_Witness ==
    \E c \in Clients :
       /\ IdxOf(jar[c]) = 2
       /\ \E i \in DOMAIN db :
             db[i].choice = "" /\ db[i].correct_choice # Null /\ db[i].is_correct = Some(0)
       /\ \E i \in DOMAIN db :
             db[i].choice = "" /\ db[i].correct_choice = Null /\ db[i].is_correct = Null

\* C15 -- When the current figure is not in the question catalog, GET /survey
\* shows the placeholder question, and POST /survey records the placeholder
\* prompt with correct_choice = null and is_correct = null and advances the
\* index by one.
C15_PlaceholderQuestion ==
    [][(resp'.route = "/survey") =>
       \A c \in Clients, method \in {"GET", "POST"}, form \in Forms :
          \A s \in Cookies(c) :
             (/\ ~IsComplete(s, figdir)
              /\ FigOrder(s, figdir)[IdxOf(s) + 1] \notin DOMAIN QUESTIONS
              /\ SurveyStep(c, s, method, form)) =>
                LET fig == FigOrder(s, figdir)[IdxOf(s) + 1]
                IN  IF method = "GET"
                    THEN /\ resp'.kind = "render"
                         /\ resp'.ctx.fig = fig
                         /\ resp'.ctx.q = DEFAULT_QUESTION
                         /\ db' = db /\ jar' = jar
                    ELSE /\ resp' = Redirect("/survey", "POST", "survey")
                         /\ Len(db') = Len(db) + 1
                         /\ Last(db').figure = fig
                         /\ Last(db').question = DEFAULT_QUESTION.prompt
                         /\ Last(db').choice = FormChoice(form)
                         /\ Last(db').correct_choice = Null
                         /\ Last(db').is_correct = Null
                         /\ IdxOf(jar'[c]) = IdxOf(s) + 1]_vars

\* C15 witness: the answer to the second figure of a started survey, a figure
\* the catalog does not name, has just been recorded with the placeholder
\* prompt.
C15_Witness ==
    \E c \in Clients :
       /\ resp = Redirect("/survey", "POST", "survey")
       /\ jar[c].figs = Some(<<Fig1, FigX>>)
       /\ IdxOf(jar[c]) = 2
       /\ Len(db) = 2
       /\ db[2].figure = FigX
       /\ db[2].question = DEFAULT_QUESTION.prompt
       /\ db[2].choice = "~8%"
       /\ db[2].is_correct = Null

\* ===================================================================
\* Properties of a survey driven sequentially, checked under SpecRun.
\* ===================================================================
\* The records of the participant of session s, in insertion order.
RowsOf(s) == SelectSeq(db, LAMBDA r : s.user_id = Some(r.user_id))

\* POST /start has just been served to browser c.
JustStarted(c) == resp = Redirect("/start", "POST", "survey") /\ jar[c].figs # Null

\* The session of browser c is COMPLETE after exactly one accepted submission
\* per figure of its order.
DoneAfterAll(c) ==
    /\ jar[c].figs # Null
    /\ IdxOf(jar[c]) = Len(jar[c].figs[1])
    /\ Len(RowsOf(jar[c])) = Len(jar[c].figs[1])

\* C16 -- After POST /start with n figures, a participant who keeps
\* submitting answers with the session of the previous response reaches the
\* COMPLETE state, with exactly n submissions accepted since the start.
C16_ReachesComplete ==
    \A c \in Clients : JustStarted(c) ~> DoneAfterAll(c)

\* C16 witness: a survey of two figures is COMPLETE after two submissions.
C16_Witness ==
    \E c \in Clients :
       /\ DoneAfterAll(c)
       /\ Len(jar[c].figs[1]) = 2
       /\ resp = Redirect("/survey", "POST", "survey")

\* C17 -- For a session driven sequentially from POST /start, in every
\* reachable state the number of records with the session's participant id
\* equals the session index, and the figures of these records are the first
\* index entries of the figure order the session stores, one record each.
C17_OneRecordPerIndex ==
    \A c \in Clients :
       jar[c].figs # Null =>
          LET figs == jar[c].figs[1]
              rows == RowsOf(jar[c])
          IN  /\ Len(rows) = IdxOf(jar[c])
              /\ IdxOf(jar[c]) <= Len(figs)
              /\ \A k \in 1..Len(rows) : rows[k].figure = figs[k]

\* ===================================================================
\* Properties of the routes, checked under SpecRoutes.
\* ===================================================================
\* C19 -- GET /survey, GET /, GET /complete and GET /stats leave the session
\* (participant id, index, figure order) and the response store unchanged; a
\* request that changes the session and not the store is POST /start, and a
\* request that changes the store is a POST /survey with index < total.
C19_FrameOfRoutes ==
    [][(resp' # NoResponse) =>
       /\ (resp'.method = "GET" /\ resp'.route \in {"/survey", "/", "/complete", "/stats"}) =>
             (jar' = jar /\ db' = db)
       /\ resp'.route = "/start" => (db' = db /\ jar' # jar)
       /\ (jar' # jar /\ db' = db) => (resp'.route = "/start" /\ resp'.method = "POST")
       /\ db' # db =>
             /\ resp'.route = "/survey" /\ resp'.method = "POST"
             /\ \E c \in Clients :
                   /\ IdxOf(jar[c]) < Len(FigOrder(jar[c], figdir))
                   /\ jar' = [jar EXCEPT ![c] = Advance(jar[c], IdxOf(jar[c]))]]_vars

\* C19 witness: GET /stats has been served in the middle of a survey, after
\* an accepted answer.
C19_Witness ==
    \E c \in Clients :
       /\ resp.route = "/stats" /\ resp.method = "GET"
       /\ jar[c].figs # Null
       /\ IdxOf(jar[c]) = 1
       /\ Len(jar[c].figs[1]) = 2
       /\ Len(db) = 1

\* ===================================================================
\* Properties of the stats aggregator, checked under SpecStats. The store
\* and the directory are those /stats has just read; the participants of
\* StatSessions differ in the first 8 characters of their ids, so a row of
\* the pivot names its participant.
\* ===================================================================
StatsShown == resp.route = "/stats"

\* The rows of the store that belong to the participant shown as short.
RowsOfShown(short) == {i \in DOMAIN db : ShortId(db[i].user_id) = short}

\* The earliest timestamp among the rows numbered I.
EarliestTs(I) == CHOOSE t \in {db[i].ts : i \in I} : \A i \in I : t <= db[i].ts

\* C3 -- The participant rows of the pivot are in ascending order of each
\* participant's earliest response timestamp, and the timestamp a row shows
\* is that earliest timestamp.
C3_EarliestFirst ==
    StatsShown =>
       LET pv == resp.ctx.pivot
           first(k) == EarliestTs(RowsOfShown(pv[k].user_id))
       IN  /\ \A k \in DOMAIN pv : pv[k].ts = FormatTs(first(k))
           /\ \A k, l \in DOMAIN pv : k < l => first(k) <= first(l)

\* C9 -- The pivot has one row per participant, and the answer list of every
\* row has exactly one entry per figure of the sorted figure list, in that
\* order: a choice the participant submitted for the figure if there is one,
\* the placeholder otherwise.
C9_AnswersAligned ==
    StatsShown =>
       LET pv   == resp.ctx.pivot
           figs == list_figures(figdir)
       IN  /\ resp.ctx.figures = figs
           /\ Len(pv) = Cardinality(UserIds(db))
           /\ {pv[k].user_id : k \in DOMAIN pv} = {ShortId(u) : u \in UserIds(db)}
           /\ \A k \in DOMAIN pv :
                 /\ Len(pv[k].answers) = Len(figs)
                 /\ \A i \in 1..Len(figs) :
                       LET given == {db[j].choice :
                                        j \in {j \in RowsOfShown(pv[k].user_id) :
                                                  db[j].figure = figs[i]}}
                       IN  IF given = {} THEN pv[k].answers[i] = Dash
                           ELSE pv[k].answers[i] \in given

\* C9 witness: of the figures [A, B, C] a participant answered A and C.
C9_Witness ==
    /\ StatsShown
    /\ resp.ctx.figures = <<Fig1, Fig2, FigX>>
    /\ \E k \in DOMAIN resp.ctx.pivot :
          resp.ctx.pivot[k].answers = <<"Less", Dash, "More">>

\* C10 -- The correct count of every participant row is the number of that
\* participant's records whose is_correct is 1.
C10_CorrectCount ==
    StatsShown =>
       \A k \in DOMAIN resp.ctx.pivot :
          resp.ctx.pivot[k].correct =
             Cardinality({i \in RowsOfShown(resp.ctx.pivot[k].user_id) :
                             db[i].is_correct = Some(1)})

\* C10 witness: a participant with a correct, a wrong and an unmarked answer
\* is shown with one correct answer.
C10_Witness ==
    /\ StatsShown
    /\ \E k \in DOMAIN resp.ctx.pivot :
          LET mine == RowsOfShown(resp.ctx.pivot[k].user_id)
          IN  /\ resp.ctx.pivot[k].correct = 1
              /\ \E i \in mine : db[i].is_correct = Some(1)
              /\ \E i \in mine : db[i].is_correct = Some(0)
              /\ \E i \in mine : db[i].is_correct = Null

\* C11 -- For each figure of the figure list, in its order, the per-figure
\* summary gives as total the number of stored responses for the figure and as
\* correct the number of those whose is_correct is 1, so correct <= total; the
\* accuracy is null exactly when total is zero.
C11_FigureTotals ==
    StatsShown =>
       LET fs   == resp.ctx.fig_stats
           figs == list_figures(figdir)
       IN  /\ Len(fs) = Len(figs)
           /\ \A k \in DOMAIN fs :
                 LET of == {i \in DOMAIN db : db[i].figure = figs[k]}
                 IN  /\ fs[k].figure = figs[k]
                     /\ fs[k].total = Cardinality(of)
                     /\ fs[k].correct =
                           Cardinality({i \in of : db[i].is_correct = Some(1)})
                     /\ fs[k].correct <= fs[k].total
                     /\ (fs[k].accuracy = Null) <=> (fs[k].total = 0)

\* C11 witness: the summary shows a figure nobody answered, without an
\* accuracy, beside a figure with one correct answer out of three.
C11_Witness ==
    /\ StatsShown
    /\ \E k, l \in DOMAIN resp.ctx.fig_stats :
          /\ resp.ctx.fig_stats[k].total = 0
          /\ resp.ctx.fig_stats[k].accuracy = Null
          /\ resp.ctx.fig_stats[l].total = 3
          /\ resp.ctx.fig_stats[l].correct = 1
          /\ resp.ctx.fig_stats[l].accuracy = Some(333)

\* ===================================================================
\* Properties of the progress display, checked under SpecPct.
\* ===================================================================
\* C12 -- For every figure count n >= 1 the progress percentage shown for
\* index = 0..n-1 is floor(index * 100 / n); it lies in [0, 100) and is not
\* below the percentage of any smaller index.
C12_ProgressBounded ==
    (resp.route = "/survey" /\ resp.kind = "render") =>
       LET n   == resp.ctx.n
           idx == resp.ctx.idx
           pct == resp.ctx.pct
       IN  /\ n >= 1 /\ idx \in 0..(n - 1)
           /\ pct * n <= idx * 100 /\ idx * 100 < (pct + 1) * n
           /\ 0 <= pct /\ pct < 100
           /\ \A j \in 0..idx : Pct(j, n) <= pct

\* C12 witness: the last of three questions is shown at 66 percent.
C12_Witness ==
    /\ resp.route = "/survey" /\ resp.kind = "render"
    /\ resp.ctx.n = 3 /\ resp.ctx.idx = 2 /\ resp.ctx.pct = 66

\* C20 -- When the store holds several records of one participant for one
\* figure, the pivot cell of that participant and figure shows the choice of
\* a record with the earliest timestamp among them.
C20_EarliestChoiceShown ==
    StatsShown =>
       LET pv   == resp.ctx.pivot
           figs == resp.ctx.figures
       IN  \A k \in DOMAIN pv, i \in DOMAIN figs :
              LET mine == {j \in RowsOfShown(pv[k].user_id) : db[j].figure = figs[i]}
              IN  mine # {} =>
                     \E j \in mine : /\ db[j].ts = EarliestTs(mine)
                                      /\ pv[k].answers[i] = db[j].choice

\* C20 witness: a participant answered one figure at two different times with
\* two different choices, and the cell shows the choice of the earlier record.
C20_Witness ==
    /\ StatsShown
    /\ \E k \in DOMAIN resp.ctx.pivot, i \in DOMAIN resp.ctx.figures :
          \E a, b \in RowsOfShown(resp.ctx.pivot[k].user_id) :
             /\ db[a].figure = resp.ctx.figures[i]
             /\ db[b].figure = resp.ctx.figures[i]
             /\ db[a].ts < db[b].ts
             /\ db[a].choice # db[b].choice
             /\ resp.ctx.pivot[k].answers[i] = db[a].choice

====
